---------------------------- MODULE Spec2Model ----------------------------
(***************************************************************************)
(* Model of airtime_analyzer/cloud_storage_uploader.py:                    *)
(* CloudStorageUploader.__init__, enabled and upload_obj.                  *)
(*                                                                         *)
(* Python strings that the code takes apart (paths, prefixes, uuids,       *)
(* resource ids) are sequences of one-character strings.  A dict with      *)
(* string keys is a function whose DOMAIN is the set of keys present.      *)
(* Each upload_obj call is a process whose pc names the source line it     *)
(* is about to execute.                                                    *)
(***************************************************************************)
EXTENDS Integers, Sequences, FiniteSets, TLC

VARIABLES
    config,           \* the config object handed to __init__
    self,             \* the CloudStorageUploader instance's attributes
    disk,             \* the filesystem: existing path -> size in bytes
    store,            \* objects held by the S3 bucket
    dicts,            \* the heap of metadata dict objects, in order of creation: id -> dict
    pc,               \* per call: the line of upload_obj about to run
    audio_file_path,  \* per call: argument
    metadata,         \* per call: argument, a reference (id) to a dict object
    arg,              \* per call: the dict's content when the call was made
    unique_id,        \* per call: local variable (line 73)
    resource_id,      \* per call: local variable (line 82)
    err,              \* per call: the exception that left upload_obj, or "none"
    log,              \* per call: the external operations it has performed, in order
    issued,           \* the uuids uuid.uuid4() has handed out so far
    query,            \* the last answer of enabled(), if it was asked
    nm                \* the naming lines 65-82 applied to arbitrary inputs

vars == <<config, self, disk, store, dicts, pc, audio_file_path,
          metadata, arg, unique_id, resource_id, err, log, issued, query, nm>>

---------------------------------------------------------------------------
(* Bounds *)

\* number of upload_obj calls made on the instance (they may overlap)
NumCalls == 2

\* longest source path fed to the naming lines in NamerSpec
MaxLen == 3

\* the characters source paths and prefixes are made of in NamerSpec
PathChars == {"a", " ", ".", "/"}

---------------------------------------------------------------------------
(* Strings *)

Range(s) == {s[i] : i \in 1..Len(s)}

\* str.rfind(c), 1-based; 0 when c does not occur (Python's -1)
RFind(s, c) ==
    IF c \in Range(s) THEN CHOOSE i \in 1..Len(s) : s[i] = c /\ \A j \in (i+1)..Len(s) : s[j] # c
    ELSE 0

\* posixpath.basename: everything after the last "/"
basename(p) == SubSeq(p, RFind(p, "/") + 1, Len(p))

\* posixpath.splitext: the extension starts at the last dot of the last path
\* component, unless only dots precede it in that component
splitext(p) ==
    LET sepIndex == RFind(p, "/")
        dotIndex == RFind(p, ".")
    IN  IF dotIndex > sepIndex /\ \E k \in (sepIndex+1)..(dotIndex-1) : p[k] # "."
        THEN <<SubSeq(p, 1, dotIndex - 1), SubSeq(p, dotIndex, Len(p))>>
        ELSE <<p, <<>> >>

\* str.replace(old, new) for one-character old and new
replace(s, old, new) == [i \in 1..Len(s) |-> IF s[i] = old THEN new ELSE s[i]]

\* a slip in line 80: unique_id[:2]
unique_id_prefix_head(uid) ==
    IF Len(uid) >= 2 THEN SubSeq(uid, 1, 2) ELSE uid

\* line 80: unique_id[-2:]
unique_id_prefix(uid) ==
    IF Len(uid) >= 2 THEN SubSeq(uid, Len(uid) - 1, Len(uid)) ELSE uid

\* line 65
file_base_name(path) == basename(path)

\* line 71: the stem of the base name with spaces replaced by dashes
file_name(path) == replace(splitext(file_base_name(path))[1], " ", "-")

\* line 66
extension(path) == splitext(file_base_name(path))[2]

\* lines 65-82: "%s/%s/%s_%s%s" % (file_prefix, unique_id_prefix, file_name, unique_id, extension)
ResourceId(path, file_prefix, uid) ==
    file_prefix \o <<"/">> \o unique_id_prefix(uid) \o <<"/">>
        \o file_name(path) \o <<"_">> \o uid \o extension(path)

---------------------------------------------------------------------------
(* Inputs *)

STORAGE_BACKEND_FILE == "file"

\* values of the [current_backend] storage_backend option
Backends == {STORAGE_BACKEND_FILE, "amazon_S3"}

\* a config file: section -> option -> value
ConfigFor(b) ==
    [current_backend |-> [storage_backend |-> b],
     amazon_S3 |-> [host |-> "s3.amazonaws.com", bucket |-> "airtime",
                    api_key |-> "AK", api_key_secret |-> "SK"]]

PathA == <<"d", "/", "a", " ", "b", ".", "m">>   \* "d/a b.m"
PathB == <<"e", "/", "a", " ", "b", ".", "m">>   \* "e/a b.m"
\* the staged files, in the order callers first pass them to upload_obj
StagedFiles == <<PathA, PathB>>
Paths == Range(StagedFiles)

\* the staged files and their sizes in bytes
SizeOf == (PathA :> 10) @@ (PathB :> 4)

\* the metadata dicts callers build: with the file_prefix key, and without it
WithPrefix == [file_prefix |-> <<"s", "/", "4">>, title |-> <<"x">>]
WithoutPrefix == [title |-> <<"x">>]
NewDicts == {WithPrefix, WithoutPrefix}

\* str(uuid.uuid4()) values, shortened: lowercase hex digits and hyphens.
\* The random source is a stream of pairwise different values; which call draws
\* which value depends on the interleaving.
UuidStream ==
    <<<<"a", "-", "0", "f">>, <<"b", "-", "0", "f">>, <<"c", "-", "1", "e">>,
      <<"d", "-", "1", "e">>>>
UUIDs == Range(UuidStream)

Calls == 1..NumCalls

NoPath == <<>>
NoId == <<>>

---------------------------------------------------------------------------
(* CloudStorageUploader.__init__ *)

\* lines 25-36
Construct(cfg) ==
    LET section == cfg["current_backend"]["storage_backend"]
    IN  IF section = STORAGE_BACKEND_FILE
        THEN [_storage_backend |-> section, _host |-> "", _bucket |-> "",
              _api_key |-> "", _api_key_secret |-> ""]
        ELSE [_storage_backend |-> section,
              _host |-> cfg[section]["host"],
              _bucket |-> cfg[section]["bucket"],
              _api_key |-> cfg[section]["api_key"],
              _api_key_secret |-> cfg[section]["api_key_secret"]]

\* a slip in lines 38-42: the comparison dropped
enabled_always(s) == TRUE

\* lines 38-42
enabled(s) == IF s._storage_backend = "file" THEN FALSE ELSE TRUE

\* a slip in line 73: a random source that repeats itself
uuid4_stuck(used) == {UuidStream[1]}

\* uuid.uuid4(): a random 122-bit value, modelled as the next value of the stream,
\* which was never handed out before
uuid4(used) ==
    IF Cardinality(used) < Len(UuidStream) THEN {UuidStream[Cardinality(used) + 1]} ELSE {}

\* dict[k] = v
SetItem(d, k, v) == [x \in (DOMAIN d) \cup {k} |-> IF x = k THEN v ELSE d[x]]

NmIdle == [derived |-> FALSE, path |-> NoPath, file_prefix |-> NoPath,
           unique_id |-> NoId, resource_id |-> NoId]

Init ==
    /\ config \in {ConfigFor(b) : b \in Backends}
    /\ self = Construct(config)
    /\ disk = SizeOf
    /\ store = {}
    /\ dicts = << >>
    /\ pc = [p \in Calls |-> "idle"]
    /\ audio_file_path = [p \in Calls |-> NoPath]
    /\ metadata = [p \in Calls |-> 0]
    /\ arg = [p \in Calls |-> << >>]
    /\ unique_id = [p \in Calls |-> NoId]
    /\ resource_id = [p \in Calls |-> NoId]
    /\ err = [p \in Calls |-> "none"]
    /\ log = [p \in Calls |-> << >>]
    /\ issued = {}
    /\ query = [asked |-> FALSE, ret |-> FALSE]
    /\ nm = NmIdle

---------------------------------------------------------------------------
(* CloudStorageUploader.upload_obj, one action per externally visible step *)

Raise(p, e) == /\ pc' = [pc EXCEPT ![p] = "raised"]
               /\ err' = [err EXCEPT ![p] = e]

Goto(p, l) == /\ pc' = [pc EXCEPT ![p] = l]
              /\ UNCHANGED err

Logged(p, events) == log' = [log EXCEPT ![p] = @ \o events]

\* a slip in line 82: metadata.get('file_prefix', '') instead of metadata['file_prefix']
GetItemOrEmpty(d, k) ==
    IF k \in DOMAIN d THEN [found |-> TRUE, value |-> d[k]]
    ELSE [found |-> TRUE, value |-> << >>]

\* line 82: metadata['file_prefix'], which raises KeyError when the key is absent
GetItem(d, k) ==
    IF k \in DOMAIN d THEN [found |-> TRUE, value |-> d[k]]
    ELSE [found |-> FALSE, value |-> << >>]

\* lines 45-82: a caller invokes upload_obj(path, m) on the dict object m, which
\* is one it holds already (m in DOMAIN dicts) or one it has just built from d;
\* the call takes the names apart, draws its uuid and looks file_prefix up.
\* Nothing outside the call is touched up to line 82.  Calls are numbered in
\* the order they are made.
Call(p, path, m, d) ==
    /\ pc[p] = "idle"
    /\ \A q \in Calls : q < p => pc[q] # "idle"
    /\ \E i \in DOMAIN StagedFiles :
          /\ path = StagedFiles[i]
          /\ i > 1 => \E q \in Calls : audio_file_path[q] = StagedFiles[i - 1]
    /\ dicts' = IF m \in DOMAIN dicts THEN dicts ELSE Append(dicts, d)
    /\ audio_file_path' = [audio_file_path EXCEPT ![p] = path]
    /\ metadata' = [metadata EXCEPT ![p] = m]
    /\ arg' = [arg EXCEPT ![p] = dicts'[m]]
    /\ \E uid \in uuid4(issued) :
          LET file_prefix == GetItem(dicts'[m], "file_prefix")
          IN  /\ issued' = issued \cup {uid}
              /\ unique_id' = [unique_id EXCEPT ![p] = uid]
              /\ IF file_prefix.found
                 THEN /\ resource_id' = [resource_id EXCEPT ![p] =
                             ResourceId(path, file_prefix.value, uid)]
                      /\ Goto(p, "L84")
                 ELSE /\ UNCHANGED resource_id
                      /\ Raise(p, "KeyError")
    /\ UNCHANGED <<config, self, disk, store, log, query, nm>>

\* line 84: conn = S3Connection(api_key, api_key_secret, host=host).  The call
\* is not guarded: what boto raises leaves upload_obj as it is.
Connect(p) ==
    /\ pc[p] = "L84"
    /\ \/ Goto(p, "L85") /\ Logged(p, <<"connect">>)
       \/ Raise(p, "BotoError") /\ Logged(p, <<"connect", "store_failure">>)
    /\ UNCHANGED <<config, self, disk, store, dicts, audio_file_path,
                   metadata, arg, unique_id, resource_id, issued, query, nm>>

\* line 85: bucket = conn.get_bucket(bucket), not guarded either
GetBucket(p) ==
    /\ pc[p] = "L85"
    /\ \/ Goto(p, "L87") /\ Logged(p, <<"get_bucket">>)
       \/ Raise(p, "BotoError") /\ Logged(p, <<"get_bucket", "store_failure">>)
    /\ UNCHANGED <<config, self, disk, store, dicts, audio_file_path,
                   metadata, arg, unique_id, resource_id, issued, query, nm>>

\* the object that lines 87-90 put into the bucket
NewObject(p) ==
    [key |-> resource_id[p],
     metadata |-> [filename |-> file_base_name(audio_file_path[p])],
     payload |-> audio_file_path[p],
     size |-> disk[audio_file_path[p]],
     by |-> p]

\* a slip in lines 87-90: the failed write caught and the call carried on
SetContentsSwallow(p) ==
    /\ pc[p] = "L87"
    /\ pc' = [pc EXCEPT ![p] = "L92"]
    /\ log' = [log EXCEPT ![p] = @ \o <<"put", "store_failure">>]
    /\ UNCHANGED <<config, self, disk, store, dicts, audio_file_path, metadata,
                   arg, unique_id, resource_id, err, issued, query, nm>>

\* lines 87-90: Key(bucket), key.key, set_metadata, set_contents_from_filename.
\* The file is opened first (IOError when it is missing), then sent in one PUT.
SetContents(p) ==
    /\ pc[p] = "L87"
    /\ IF audio_file_path[p] \notin DOMAIN disk
       THEN /\ Raise(p, "IOError")
            /\ UNCHANGED <<store, log>>
       ELSE \/ /\ store' = {o \in store : o.key # resource_id[p]} \cup {NewObject(p)}
               /\ Goto(p, "L92")
               /\ Logged(p, <<"put">>)
            \/ /\ Raise(p, "BotoError")
               /\ Logged(p, <<"put", "store_failure">>)
               /\ UNCHANGED store
    /\ UNCHANGED <<config, self, disk, dicts, audio_file_path,
                   metadata, arg, unique_id, resource_id, issued, query, nm>>

\* line 92: metadata["filesize"] = os.path.getsize(audio_file_path)
GetSize(p) ==
    /\ pc[p] = "L92"
    /\ IF audio_file_path[p] \notin DOMAIN disk
       THEN /\ Raise(p, "OSError")
            /\ UNCHANGED <<dicts, log>>
       ELSE /\ dicts' = [dicts EXCEPT ![metadata[p]] =
                            SetItem(@, "filesize", disk[audio_file_path[p]])]
            /\ Goto(p, "L95")
            /\ Logged(p, <<"getsize", "set_filesize">>)
    /\ UNCHANGED <<config, self, disk, store, audio_file_path,
                   metadata, arg, unique_id, resource_id, issued, query, nm>>

\* a slip in lines 95-98: os.remove outside the try
RemoveUncaught(p) ==
    /\ pc[p] = "L95"
    /\ \/ /\ audio_file_path[p] \in DOMAIN disk
          /\ disk' = [f \in (DOMAIN disk) \ {audio_file_path[p]} |-> disk[f]]
          /\ log' = [log EXCEPT ![p] = @ \o <<"remove">>]
          /\ pc' = [pc EXCEPT ![p] = "L101"]
          /\ UNCHANGED err
       \/ /\ UNCHANGED disk
          /\ log' = [log EXCEPT ![p] = @ \o <<"remove", "OSError">>]
          /\ pc' = [pc EXCEPT ![p] = "raised"]
          /\ err' = [err EXCEPT ![p] = "OSError"]
    /\ UNCHANGED <<config, self, store, dicts, audio_file_path,
                   metadata, arg, unique_id, resource_id, issued, query, nm>>

\* lines 95-98: try: os.remove(audio_file_path) except OSError: logging.info(...)
\* os.remove raises OSError when the file is gone, and may raise it for a file
\* that is there (a directory that refuses the unlink).
Remove(p) ==
    /\ pc[p] = "L95"
    /\ \/ /\ audio_file_path[p] \in DOMAIN disk
          /\ disk' = [f \in (DOMAIN disk) \ {audio_file_path[p]} |-> disk[f]]
          /\ Logged(p, <<"remove">>)
       \/ /\ UNCHANGED disk
          /\ Logged(p, <<"remove", "OSError", "logging.info">>)
    /\ Goto(p, "L101")
    /\ UNCHANGED <<config, self, store, dicts, audio_file_path,
                   metadata, arg, unique_id, resource_id, issued, query, nm>>

\* a slip in line 101: the sanitized name stored instead of the original
SetFilenameSanitized(p) ==
    /\ pc[p] = "L101"
    /\ dicts' = [dicts EXCEPT ![metadata[p]] =
                    [x \in (DOMAIN @) \cup {"filename"} |->
                        IF x = "filename"
                        THEN [i \in 1..Len(audio_file_path[p]) |->
                                 IF audio_file_path[p][i] = " " THEN "-"
                                 ELSE audio_file_path[p][i]]
                        ELSE @[x]]]
    /\ log' = [log EXCEPT ![p] = @ \o <<"set_filename">>]
    /\ pc' = [pc EXCEPT ![p] = "L103"]
    /\ UNCHANGED <<config, self, disk, store, audio_file_path,
                   metadata, arg, unique_id, resource_id, err, issued, query, nm>>

\* line 101: metadata["filename"] = file_base_name
SetFilename(p) ==
    /\ pc[p] = "L101"
    /\ dicts' = [dicts EXCEPT ![metadata[p]] =
                    SetItem(@, "filename", file_base_name(audio_file_path[p]))]
    /\ Logged(p, <<"set_filename">>)
    /\ Goto(p, "L103")
    /\ UNCHANGED <<config, self, disk, store, audio_file_path,
                   metadata, arg, unique_id, resource_id, issued, query, nm>>

\* line 103: metadata["resource_id"] = resource_id
SetResourceId(p) ==
    /\ pc[p] = "L103"
    /\ dicts' = [dicts EXCEPT ![metadata[p]] = SetItem(@, "resource_id", resource_id[p])]
    /\ Logged(p, <<"set_resource_id">>)
    /\ Goto(p, "L104")
    /\ UNCHANGED <<config, self, disk, store, audio_file_path,
                   metadata, arg, unique_id, resource_id, issued, query, nm>>

\* lines 104-105: metadata["storage_backend"] = self._storage_backend; return metadata
SetStorageBackend(p) ==
    /\ pc[p] = "L104"
    /\ dicts' = [dicts EXCEPT ![metadata[p]] =
                    SetItem(@, "storage_backend", self._storage_backend)]
    /\ Logged(p, <<"set_storage_backend">>)
    /\ Goto(p, "returned")
    /\ UNCHANGED <<config, self, disk, store, audio_file_path,
                   metadata, arg, unique_id, resource_id, issued, query, nm>>

\* lines 38-42 called by a client of the instance
Enabled ==
    /\ query' = [asked |-> TRUE, ret |-> enabled(self)]
    /\ UNCHANGED <<config, self, disk, store, dicts, pc, audio_file_path,
                   metadata, arg, unique_id, resource_id, err, log, issued, nm>>

Step(p) ==
    \/ \E path \in Paths :
          \/ \E m \in DOMAIN dicts : Call(p, path, m, dicts[m])
          \/ \E d \in NewDicts : Call(p, path, Len(dicts) + 1, d)
    \/ Connect(p)
    \/ GetBucket(p)
    \/ SetContents(p)
    \/ GetSize(p)
    \/ Remove(p)
    \/ SetFilename(p)
    \/ SetResourceId(p)
    \/ SetStorageBackend(p)

Next == \E p \in Calls : Step(p)

\* upload_obj calls issued from several threads on one instance: their steps interleave
Spec == Init /\ [][Next]_vars

\* no other call is inside upload_obj
Alone(p) == \A q \in Calls \ {p} : pc[q] \in {"idle", "returned", "raised"}

SeqNext == (\E p \in Calls : Alone(p) /\ Step(p)) \/ Enabled

\* a single-threaded client: one upload_obj call at a time, enabled() in between
SeqSpec == Init /\ [][SeqNext]_vars

---------------------------------------------------------------------------
(* The naming lines 65-82 on their own, over all short paths *)

Strings(n) == UNION {[1..k -> PathChars] : k \in 0..n}

Prefixes == {<<"s", "/", "4">>, <<"s", " ">>}

Name(path, file_prefix, uid) ==
    /\ ~nm.derived
    /\ nm' = [derived |-> TRUE, path |-> path, file_prefix |-> file_prefix,
              unique_id |-> uid, resource_id |-> ResourceId(path, file_prefix, uid)]
    /\ UNCHANGED <<config, self, disk, store, dicts, pc, audio_file_path,
                   metadata, arg, unique_id, resource_id, err, log, issued, query>>

NamerNext == \E path \in Strings(MaxLen), file_prefix \in Prefixes, uid \in UUIDs :
                Name(path, file_prefix, uid)

NamerSpec == Init /\ [][NamerNext]_vars

---------------------------------------------------------------------------
(* Vocabulary of the properties *)

Count(s, e) == Cardinality({i \in 1..Len(s) : s[i] = e})

Started(p) == pc[p] # "idle"

Remote == config["current_backend"]["storage_backend"] # "file"

StoreCalls == {"connect", "get_bucket", "put"}

ResultKeys == {"filesize", "filename", "resource_id", "storage_backend"}

Assignments == {"set_filesize", "set_filename", "set_resource_id", "set_storage_backend"}

\* the source file was deleted by call p
Deleted(p) == Count(log[p], "remove") > Count(log[p], "OSError")

\* b is the last component of path
IsBaseOf(b, path) ==
    /\ "/" \notin Range(b)
    /\ Len(b) <= Len(path)
    /\ SubSeq(path, Len(path) - Len(b) + 1, Len(path)) = b
    /\ Len(b) < Len(path) => path[Len(path) - Len(b)] = "/"

\* base = stem \o ext, ext being the extension of base: empty, or the part from
\* the last dot when something other than dots precedes that dot
IsStemExt(stem, ext, base) ==
    /\ stem \o ext = base
    /\ IF \E k \in 1..Len(base) : base[k] = "." /\ \E j \in 1..(k-1) : base[j] # "."
       THEN /\ ext # << >>
            /\ ext[1] = "."
            /\ \A j \in 2..Len(ext) : ext[j] # "."
            /\ \E j \in 1..Len(stem) : stem[j] # "."
       ELSE ext = << >>

\* t is s with every space replaced by a hyphen
IsHyphenated(t, s) ==
    /\ Len(t) = Len(s)
    /\ \A i \in 1..Len(s) : t[i] = IF s[i] = " " THEN "-" ELSE s[i]

\* rid = <file_prefix>/<last two of uid>/<hyphenated stem>_<uid><extension>
WellFormed(rid, path, file_prefix, uid) ==
    \E i \in 0..Len(path), j \in 0..Len(path) :
        LET base == SubSeq(path, i + 1, Len(path))
            stem == SubSeq(path, i + 1, j)
            ext == SubSeq(path, j + 1, Len(path))
            n == Len(file_prefix)
        IN  /\ i <= j
            /\ IsBaseOf(base, path)
            /\ IsStemExt(stem, ext, base)
            /\ Len(rid) = n + Len(stem) + Len(uid) + Len(ext) + 5
            /\ SubSeq(rid, 1, n) = file_prefix
            /\ rid[n + 1] = "/"
            /\ SubSeq(rid, n + 2, n + 3) = <<uid[Len(uid) - 1], uid[Len(uid)]>>
            /\ rid[n + 4] = "/"
            /\ IsHyphenated(SubSeq(rid, n + 5, n + 4 + Len(stem)), stem)
            /\ rid[n + 5 + Len(stem)] = "_"
            /\ SubSeq(rid, n + 6 + Len(stem), n + 5 + Len(stem) + Len(uid)) = uid
            /\ SubSeq(rid, Len(rid) - Len(ext) + 1, Len(rid)) = ext

---------------------------------------------------------------------------
(* Properties of the naming lines, under NamerSpec *)

\* C7: for every source path and file prefix, the resource id contains no space
\* character and ends with the original extension of the source file.
C7_NoSpaceKeepsExtension ==
    nm.derived =>
        /\ " " \notin Range(nm.resource_id)
        /\ \E i \in 0..Len(nm.path), j \in 0..Len(nm.path) :
              LET ext == SubSeq(nm.path, j + 1, Len(nm.path))
              IN  /\ i <= j
                  /\ IsBaseOf(SubSeq(nm.path, i + 1, Len(nm.path)), nm.path)
                  /\ IsStemExt(SubSeq(nm.path, i + 1, j), ext,
                               SubSeq(nm.path, i + 1, Len(nm.path)))
                  /\ Len(ext) <= Len(nm.resource_id)
                  /\ SubSeq(nm.resource_id, Len(nm.resource_id) - Len(ext) + 1,
                            Len(nm.resource_id)) = ext

\* C8: every resource id has the form
\* <filePrefix>/<suffix>/<sanitizedStem>_<uniqueToken><extension>, the stem with
\* every space replaced by a hyphen, the suffix being the last two characters of
\* the unique token that appears in the same resource id.
C8_ResourceIdForm ==
    nm.derived => WellFormed(nm.resource_id, nm.path, nm.file_prefix, nm.unique_id)

\* a resource id was derived from a path with a directory, a space in the stem
\* and an extension
C8_Witness ==
    /\ nm.derived
    /\ nm.path = <<"/", " ", ".">>
    /\ nm.resource_id = <<"s", "/", "4", "/", "0", "f", "/", "-", "_", "a", "-", "0", "f", ".">>

---------------------------------------------------------------------------
(* Properties of upload_obj and enabled *)

\* C1: with the backend selector "file", no call of upload_obj makes a store
\* call (connect, get-container, object write) or deletes the source file, and
\* the metadata it returns holds a well-formed resource_id.
C1_LocalNeverTouchesStore ==
    ~Remote =>
        \A p \in Calls :
            /\ \A i \in 1..Len(log[p]) : log[p][i] \notin StoreCalls
            /\ ~Deleted(p)
            /\ pc[p] = "returned" =>
                  /\ "resource_id" \in DOMAIN dicts[metadata[p]]
                  /\ WellFormed(dicts[metadata[p]]["resource_id"], audio_file_path[p],
                                arg[p]["file_prefix"], unique_id[p])

\* a store call of call p failed
StoreFailed(p) == Count(log[p], "store_failure") > 0

\* what the claims C2 and C2 (amended) share: one attempt, no deletion, no result
FailedUploadLeavesNothing(p) ==
    /\ pc[p] = "raised"
    /\ \A c \in StoreCalls : Count(log[p], c) <= 1
    /\ ~Deleted(p)
    /\ \A i \in 1..Len(log[p]) : log[p][i] \notin Assignments

\* C2 (as claimed): with a remote backend, a store failure while connecting,
\* fetching the container or writing the object is not retried, ends the call
\* with an UploadError, deletes nothing and adds no result key.
C2_StoreFailureIsUploadError ==
    Remote =>
        \A p \in Calls :
            StoreFailed(p) => FailedUploadLeavesNothing(p) /\ err[p] = "UploadError"

\* C2 (amended): with a remote backend, a store failure while connecting,
\* fetching the container or writing the object is not retried, ends the call
\* with the exception boto raised, unwrapped, deletes nothing and adds no
\* result key.
C2_StoreFailurePropagates ==
    Remote =>
        \A p \in Calls :
            StoreFailed(p) => FailedUploadLeavesNothing(p) /\ err[p] = "BotoError"

\* the object write of a call on a remote backend has failed
C2_Witness ==
    /\ Remote
    /\ \E p \in Calls : log[p] = <<"connect", "get_bucket", "put", "store_failure">>

\* the call was made on a mapping with no file_prefix
PrefixMissing(p) ==
    /\ Started(p)
    /\ "file_prefix" \notin DOMAIN arg[p]

\* C3 (as claimed): a call whose metadata has no file_prefix fails with
\* InvalidRequestError before any store call, size read or deletion.
C3_MissingPrefixIsInvalidRequest ==
    \A p \in Calls :
        PrefixMissing(p) =>
            pc[p] = "raised" /\ err[p] = "InvalidRequestError" /\ log[p] = << >>

\* C3 (amended): a call whose metadata has no file_prefix fails with KeyError
\* before any store call, size read or deletion.
C3_MissingPrefixIsKeyError ==
    \A p \in Calls :
        PrefixMissing(p) =>
            pc[p] = "raised" /\ err[p] = "KeyError" /\ log[p] = << >>

\* a call on a mapping with no file_prefix has ended
C3_Witness ==
    \E p \in Calls : PrefixMissing(p) /\ pc[p] = "raised"

\* C4: with a remote backend, when the object was written and the deletion of
\* the source file fails, the call does not fail and returns the metadata with
\* filesize, filename, resource_id and storage_backend set.
C4_DeleteFailureSwallowed ==
    Remote =>
        \A p \in Calls :
            (Count(log[p], "put") = 1 /\ Count(log[p], "OSError") > 0) =>
                /\ pc[p] \in {"L101", "L103", "L104", "returned"}
                /\ err[p] = "none"
                /\ Count(log[p], "logging.info") = 1
                /\ pc[p] = "returned" => ResultKeys \subseteq DOMAIN dicts[metadata[p]]

\* a call on a remote backend has returned although its os.remove failed
C4_Witness ==
    /\ Remote
    /\ \E p \in Calls :
          /\ pc[p] = "returned"
          /\ Count(log[p], "OSError") > 0
          /\ audio_file_path[p] \in DOMAIN disk

C6_EnabledIffNotFile ==
    /\ self = Construct(config)
    /\ query.asked =>
          (query.ret = FALSE <=> config["current_backend"]["storage_backend"] = "file")

\* enabled() was asked after an upload returned, on the "file" backend
C6_Witness ==
    /\ query.asked
    /\ ~query.ret
    /\ \E p \in Calls : pc[p] = "returned"

\* call p shares neither its source path nor its mapping with another call
Independent(p) ==
    \A q \in Calls \ {p} :
        Started(q) =>
            audio_file_path[q] # audio_file_path[p] /\ metadata[q] # metadata[p]

\* what upload_obj(path, mapping) returns when nothing else runs
ResultAlone(p) ==
    [k \in (DOMAIN arg[p]) \cup ResultKeys |->
        CASE k = "filesize" -> SizeOf[audio_file_path[p]]
          [] k = "filename" -> basename(audio_file_path[p])
          [] k = "resource_id" -> resource_id[p]
          [] k = "storage_backend" -> config["current_backend"]["storage_backend"]
          [] OTHER -> arg[p][k]]

\* C9: calls that run concurrently on one instance with distinct source paths
\* and distinct mappings each get a resource id of their own, write only their
\* own object, read and delete only their own file, return what they would
\* return alone, and leave the backend configuration as it was.
C9_ConcurrentCallsIndependent ==
    /\ self = Construct(config)
    /\ \A p \in Calls :
          (Started(p) /\ Independent(p)) =>
              /\ \A q \in Calls \ {p} :
                    resource_id[p] # NoId => resource_id[q] # resource_id[p]
              /\ \A o \in store :
                    o.by = p => o.key = resource_id[p] /\ o.payload = audio_file_path[p]
              /\ Cardinality({o \in store : o.key = resource_id[p]}) <= Count(log[p], "put")
              /\ audio_file_path[p] \notin DOMAIN disk <=> Deleted(p)
              /\ err[p] \notin {"IOError", "OSError"}
              /\ pc[p] = "returned" => dicts[metadata[p]] = ResultAlone(p)

\* two calls with distinct paths and mappings overlap: the later one has
\* returned while the earlier one is still between its dict assignments
C9_Witness ==
    /\ NumCalls >= 2
    /\ Independent(1) /\ Independent(2)
    /\ pc[1] = "L103" /\ pc[2] = "returned"
    /\ Deleted(1) /\ Deleted(2)

\* C10: a call that ends in an error has left the source file untouched, has
\* added none of the result keys, and has left no object in the store.
C10_ErrorMeansNothingDone ==
    \A p \in Calls :
        pc[p] = "raised" =>
            /\ ~Deleted(p)
            /\ \A i \in 1..Len(log[p]) : log[p][i] \notin Assignments
            /\ \A o \in store : o.by # p

=============================================================================
